---- MODULE Spec2Model ----
(***************************************************************************)
(* A model of the request/response dispatch layer of golang-jenkins        *)
(* (src/jenkins.go): URL construction, request construction, the transport *)
(* round trip, the JSON and XML decode paths, the queue-item redirect      *)
(* branch of parseResponse, and the resource operations built on them.     *)
(*                                                                         *)
(* Go strings are TLC strings; a character is a string of length one.      *)
(***************************************************************************)
EXTENDS Integers, Sequences, FiniteSets, TLC

VARIABLES jenkins, th

vars == <<jenkins, th>>

----------------------------------------------------------------------------
(* Strings: the pieces of strconv, strings, fmt and net/url the code uses. *)

Char(s, i) == SubSeq(s, i, i)

\* Printable ASCII in byte order: 0x20 .. 0x5F, then 0x61 .. 0x7E (a TLA+
\* string cannot hold the backquote, 0x60, which no modelled input contains).
AsciiLow == " !\"#$%&'()*+,-./0123456789:;<=>?@ABCDEFGHIJKLMNOPQRSTUVWXYZ[\\]^_"

AsciiHigh == "abcdefghijklmnopqrstuvwxyz{|}~"

\* The byte value of a printable character.
Ord(c) ==
    IF \E i \in 1..Len(AsciiLow) : Char(AsciiLow, i) = c
    THEN 31 + (CHOOSE i \in 1..Len(AsciiLow) : Char(AsciiLow, i) = c)
    ELSE 96 + (CHOOSE i \in 1..Len(AsciiHigh) : Char(AsciiHigh, i) = c)

DecDigits == "0123456789"

HexDigits == "0123456789ABCDEF"

IsDigit(c) == \E i \in 1..Len(DecDigits) : Char(DecDigits, i) = c

DigitVal(c) == (CHOOSE i \in 1..Len(DecDigits) : Char(DecDigits, i) = c) - 1

\* ishex of net/url: 0-9, a-f, A-F.
IsHex(c) == \/ IsDigit(c)
            \/ (Ord(c) >= Ord("a") /\ Ord(c) <= Ord("f"))
            \/ (Ord(c) >= Ord("A") /\ Ord(c) <= Ord("F"))

IsAlnum(c) == \/ IsDigit(c)
              \/ (Ord(c) >= Ord("a") /\ Ord(c) <= Ord("z"))
              \/ (Ord(c) >= Ord("A") /\ Ord(c) <= Ord("Z"))

RECURSIVE NatStr(_)
NatStr(n) == IF n < 10 THEN Char(DecDigits, n + 1)
             ELSE NatStr(n \div 10) \o Char(DecDigits, (n % 10) + 1)

\* The %d verb of fmt on an int.
FmtD(n) == IF n < 0 THEN "-" \o NatStr(0 - n) ELSE NatStr(n)

\* The %s verb of fmt on an int: fmt reports the bad verb in place.
FmtSOfInt(n) == "%!s(int=" \o FmtD(n) \o ")"

\* strings.Contains.
Contains(s, sub) ==
    \E i \in 1..(Len(s) - Len(sub) + 1) : SubSeq(s, i, i + Len(sub) - 1) = sub

HasPrefix(s, p) == Len(s) >= Len(p) /\ SubSeq(s, 1, Len(p)) = p

HasSuffix(s, p) == Len(s) >= Len(p) /\ SubSeq(s, Len(s) - Len(p) + 1, Len(s)) = p

\* strings.Split(s, "/"): the pieces between the separators, empty ones kept.
RECURSIVE SplitFrom(_, _, _)
SplitFrom(s, i, cur) ==
    IF i > Len(s) THEN <<cur>>
    ELSE IF Char(s, i) = "/" THEN <<cur>> \o SplitFrom(s, i + 1, "")
    ELSE SplitFrom(s, i + 1, cur \o Char(s, i))

Split(s) == SplitFrom(s, 1, "")

RECURSIVE DigitsVal(_, _, _)
DigitsVal(s, i, acc) ==
    IF i > Len(s) THEN acc ELSE DigitsVal(s, i + 1, acc * 10 + DigitVal(Char(s, i)))

\* strconv.Atoi: an optional sign and at least one decimal digit; anything
\* else is a syntax error with value 0.
Atoi(s) ==
    LET signed == Len(s) > 0 /\ Char(s, 1) \in {"+", "-"}
        digits == IF signed THEN SubSeq(s, 2, Len(s)) ELSE s
        ok     == Len(digits) > 0 /\ \A i \in 1..Len(digits) : IsDigit(Char(digits, i))
        mag    == IF ok THEN DigitsVal(digits, 1, 0) ELSE 0
    IN  [val |-> IF ok /\ signed /\ Char(s, 1) = "-" THEN 0 - mag ELSE mag,
         ok  |-> ok]

\* url.QueryEscape: letters, digits and - _ . ~ stay, a space becomes +,
\* every other byte becomes %XX.
EscapeChar(c) ==
    IF IsAlnum(c) \/ c \in {"-", "_", ".", "~"} THEN c
    ELSE IF c = " " THEN "+"
    ELSE "%" \o Char(HexDigits, (Ord(c) \div 16) + 1) \o Char(HexDigits, (Ord(c) % 16) + 1)

RECURSIVE QueryEscapeFrom(_, _)
QueryEscapeFrom(s, i) ==
    IF i > Len(s) THEN "" ELSE EscapeChar(Char(s, i)) \o QueryEscapeFrom(s, i + 1)

QueryEscape(s) == QueryEscapeFrom(s, 1)

\* Byte-wise string order, as sort.Strings uses.
RECURSIVE StrLessFrom(_, _, _)
StrLessFrom(a, b, i) ==
    IF i > Len(b) THEN FALSE
    ELSE IF i > Len(a) THEN TRUE
    ELSE IF Char(a, i) = Char(b, i) THEN StrLessFrom(a, b, i + 1)
    ELSE Ord(Char(a, i)) < Ord(Char(b, i))

StrLess(a, b) == StrLessFrom(a, b, 1)

\* url.Values: nil, or a map from keys to lists of values.
NilValues == [isNil |-> TRUE, m |-> <<>>]

Values(m) == [isNil |-> FALSE, m |-> m]

\* The keys of a map in sorted order.
RECURSIVE SortedKeys(_)
SortedKeys(ks) ==
    IF ks = {} THEN <<>>
    ELSE LET k == CHOOSE x \in ks : \A y \in ks \ {x} : StrLess(x, y)
         IN  <<k>> \o SortedKeys(ks \ {k})

RECURSIVE EncodePairs(_, _, _)
EncodePairs(key, vs, i) ==
    IF i > Len(vs) THEN <<>>
    ELSE <<QueryEscape(key) \o "=" \o QueryEscape(vs[i])>> \o EncodePairs(key, vs, i + 1)

RECURSIVE EncodeKeys(_, _, _)
EncodeKeys(m, keys, i) ==
    IF i > Len(keys) THEN <<>>
    ELSE EncodePairs(keys[i], m[keys[i]], 1) \o EncodeKeys(m, keys, i + 1)

RECURSIVE JoinAmp(_, _)
JoinAmp(ps, i) ==
    IF i > Len(ps) THEN ""
    ELSE (IF i > 1 THEN "&" ELSE "") \o ps[i] \o JoinAmp(ps, i + 1)

\* url.Values.Encode: key=value pairs, keys sorted, joined by &.
Encode(params) == JoinAmp(EncodeKeys(params.m, SortedKeys(DOMAIN params.m), 1), 1)

\* The unescape step of url.Parse on the path: every % must be followed by
\* two hex digits.
ValidEscapes(s) ==
    \A i \in 1..Len(s) :
        Char(s, i) = "%" => (i + 2 <= Len(s) /\ IsHex(Char(s, i + 1)) /\ IsHex(Char(s, i + 2)))

----------------------------------------------------------------------------
(* Values of the program.                                                  *)

\* A nil error.
NilErr == "<nil>"

ErrNewRequest == "parse: invalid URL escape"

ErrRead == "unexpected EOF while reading body"

ErrJsonEOF == "unexpected end of JSON input"

ErrJsonSyntax == "invalid character looking for beginning of value"

ErrXmlEOF == "EOF"

ErrXmlSyntax == "XML syntax error"

StatusErrPrefix == "error: HTTP POST returned status code returned: "

PanicIndex == "panic: runtime error: index out of range"

\* The only status postXml accepts.
StatusOK == 200

\* The index of the item number among the pieces of the Location header.
ItemSegment == 5

\* A decoded value: the fields the model follows of a decoded document, or
\* the bytes of a raw fetch. Zero is the zero value of every result type.
Zero == [id |-> 0, bytes |-> ""]

\* An interface{} decode target: nil, or a non-nil pointer to a value of the
\* named type.
NilBody == [type |-> "nil"]

Ptr(type) == [type |-> type]

NoReq == [method |-> "", url |-> "", user |-> "", token |-> "",
          contentType |-> "", hasBody |-> FALSE]

NoInv == [op |-> "", name |-> "", view |-> "", number |-> 0, params |-> NilValues,
          buildUrl |-> "", relPath |-> ""]

----------------------------------------------------------------------------
(* The client and the dispatch layer.                                      *)

NewJenkins(auth, baseUrl) == [auth |-> auth, baseUrl |-> baseUrl]

buildUrl(j, path, params) ==
    LET requestUrl  == j.baseUrl \o path \o "/api/json"
        queryString == Encode(params)
    IN  IF ~params.isNil /\ queryString # ""
        THEN requestUrl \o "?" \o queryString
        ELSE requestUrl

\* http.NewRequest: fails when the URL does not parse.
NewRequest(method, requestUrl, hasBody) ==
    IF ValidEscapes(requestUrl)
    THEN [ok |-> TRUE, err |-> NilErr,
          req |-> [NoReq EXCEPT !.method = method, !.url = requestUrl, !.hasBody = hasBody]]
    ELSE [ok |-> FALSE, err |-> ErrNewRequest, req |-> NoReq]

\* sendRequest, had it kept the URL of the request on the shared client.
sendRequest_keepsUrl(j, req) ==
    [req     |-> [req EXCEPT !.user = j.auth.Username, !.token = j.auth.ApiToken],
     jenkins |-> [j EXCEPT !.baseUrl = req.url]]

\* sendRequest up to the transport call: the request as handed to the
\* transport, and the client as the call leaves it.
sendRequest(j, req) ==
    [req     |-> [req EXCEPT !.user = j.auth.Username, !.token = j.auth.ApiToken],
     jenkins |-> j]

\* What the part of a dispatch function before the transport call yields:
\* an early return, or a request handed to the transport.
EarlyReturn(j, fn, path, params, body, err) ==
    [kind |-> "ret", err |-> err, fn |-> fn, path |-> path, params |-> params,
     body |-> body, req |-> NoReq, jenkins |-> j]

Send(j, fn, path, params, body, req) ==
    LET s == sendRequest(j, req)
    IN  [kind |-> "send", err |-> NilErr, fn |-> fn, path |-> path, params |-> params,
         body |-> body, req |-> s.req, jenkins |-> s.jenkins]

\* What the part of a dispatch function after the transport call yields.
\* closes: the Close calls on the response body; decoded: a decode was tried.
Return(err, val, closes, decoded) ==
    [kind |-> "ret", err |-> err, val |-> val, closes |-> closes,
     decoded |-> decoded, itemNo |-> 0]

Panic(closes) ==
    [kind |-> "panic", err |-> PanicIndex, val |-> Zero, closes |-> closes,
     decoded |-> FALSE, itemNo |-> 0]

\* parseResponse calls GetQueueItem(itemNo); its deferred Close is pending.
LookUp(itemNo) ==
    [kind |-> "queue", err |-> NilErr, val |-> Zero, closes |-> 0,
     decoded |-> FALSE, itemNo |-> itemNo]

\* json.Unmarshal into a non-nil target.
JsonUnmarshal(data) ==
    LET open == "{\"id\":"
        num  == SubSeq(data, Len(open) + 1, Len(data) - 1)
    IN  IF data = "" THEN [err |-> ErrJsonEOF, val |-> Zero]
        ELSE IF data = "{}" THEN [err |-> NilErr, val |-> Zero]
        ELSE IF HasPrefix(data, open) /\ HasSuffix(data, "}") /\ Atoi(num).ok
                /\ Char(num, 1) # "+"
        THEN [err |-> NilErr, val |-> [Zero EXCEPT !.id = Atoi(num).val]]
        ELSE [err |-> ErrJsonSyntax, val |-> Zero]

\* xml.Unmarshal into a non-nil target.
XmlUnmarshal(data) ==
    IF data = "" THEN [err |-> ErrXmlEOF, val |-> Zero]
    ELSE IF HasPrefix(data, "<") /\ HasSuffix(data, "/>")
    THEN [err |-> NilErr, val |-> Zero]
    ELSE [err |-> ErrXmlSyntax, val |-> Zero]

parseXmlResponse(resp, body) ==
    IF body.type = "nil" THEN Return(NilErr, Zero, 1, FALSE)
    ELSE IF ~resp.readOk THEN Return(ErrRead, Zero, 1, FALSE)
    ELSE LET d == XmlUnmarshal(resp.body) IN Return(d.err, d.val, 1, TRUE)

\* parseResponse, had it taken the redirect branch for an *Item target with
\* an empty response body.
parseResponse_resolvesItem(resp, body) ==
    IF body.type = "nil" \/ (body.type = "*Item" /\ resp.body = "")
    THEN IF body.type = "*Item" /\ resp.location # ""
         THEN LET parts == Split(resp.location)
              IN  IF Len(parts) < ItemSegment + 1 THEN Panic(1)
                  ELSE LookUp(Atoi(parts[ItemSegment + 1]).val)
         ELSE Return(NilErr, Zero, 1, FALSE)
    ELSE IF ~resp.readOk THEN Return(ErrRead, Zero, 1, FALSE)
    ELSE LET d == JsonUnmarshal(resp.body) IN Return(d.err, d.val, 1, TRUE)

parseResponse(resp, body) ==
    IF body.type = "nil"
    THEN IF body.type = "*Item" /\ resp.location # ""
         THEN LET parts == Split(resp.location)
              IN  IF Len(parts) < ItemSegment + 1 THEN Panic(1)
                  ELSE LookUp(Atoi(parts[ItemSegment + 1]).val)
         ELSE Return(NilErr, Zero, 1, FALSE)
    ELSE IF ~resp.readOk THEN Return(ErrRead, Zero, 1, FALSE)
    ELSE LET d == JsonUnmarshal(resp.body) IN Return(d.err, d.val, 1, TRUE)

get(j, path, params, body) ==
    LET r == NewRequest("GET", buildUrl(j, path, params), FALSE)
    IN  IF ~r.ok THEN EarlyReturn(j, "get", path, params, body, r.err)
        ELSE Send(j, "get", path, params, body, r.req)

getXml(j, path, params, body) ==
    LET r == NewRequest("GET", buildUrl(j, path, params), FALSE)
    IN  IF ~r.ok THEN EarlyReturn(j, "getXml", path, params, body, r.err)
        ELSE Send(j, "getXml", path, params, body, r.req)

post(j, path, params, body) ==
    LET r == NewRequest("POST", buildUrl(j, path, params), FALSE)
    IN  IF ~r.ok THEN EarlyReturn(j, "post", path, params, body, r.err)
        ELSE Send(j, "post", path, params, body, r.req)

postXml(j, path, params, body) ==
    LET base        == j.baseUrl \o path
        queryString == Encode(params)
        requestUrl  == IF ~params.isNil /\ queryString # ""
                       THEN base \o "?" \o queryString ELSE base
        r           == NewRequest("POST", requestUrl, TRUE)
    IN  IF ~r.ok THEN EarlyReturn(j, "postXml", path, params, body, r.err)
        ELSE Send(j, "postXml", path, params, body,
                  [r.req EXCEPT !.contentType = "application/xml"])

\* postXml once the transport has answered.
postXmlResponse(resp, body) ==
    IF resp.status # StatusOK
    THEN Return(StatusErrPrefix \o FmtD(resp.status), Zero, 0, FALSE)
    ELSE parseXmlResponse(resp, body)

\* GetBuildConsoleOutput and GetArtifact once the transport has answered:
\* defer Close, then ioutil.ReadAll. A failed read is modelled as failing at
\* the first byte.
readAll(resp) ==
    IF ~resp.readOk THEN Return(ErrRead, Zero, 1, FALSE)
    ELSE Return(NilErr, [Zero EXCEPT !.bytes = resp.body], 1, FALSE)

\* The part after the transport call of the dispatch function fn.
Continue(fn, resp, body) ==
    CASE fn = "get"     -> parseResponse(resp, body)
      [] fn = "post"    -> parseResponse(resp, body)
      [] fn = "getXml"  -> parseXmlResponse(resp, body)
      [] fn = "postXml" -> postXmlResponse(resp, body)
      [] fn = "raw"     -> readAll(resp)

----------------------------------------------------------------------------
(* The resource operations, up to their transport call.                    *)

GetJobs(j) == get(j, "", NilValues, Ptr("*payload"))

GetJob(j, name) == get(j, "/job/" \o name, NilValues, Ptr("*Job"))

GetJobConfig(j, name) ==
    getXml(j, "/job/" \o name \o "/config.xml", NilValues, Ptr("*MavenJobItem"))

GetBuild(j, jobName, number) ==
    get(j, "/job/" \o jobName \o "/" \o FmtD(number), NilValues, Ptr("*Build"))

CreateJob(j, jobName) ==
    postXml(j, "/createItem", Values("name" :> <<jobName>>), NilBody)

AddJobToView(j, viewName, jobName) ==
    post(j, "/view/" \o viewName \o "/addJobToView", Values("name" :> <<jobName>>), NilBody)

CreateView(j, viewName) ==
    postXml(j, "/createView", Values("name" :> <<viewName>>), NilBody)

\* Build, had it chosen the path by whether the parameters have entries.
Build_byEntries(j, jobName, params) ==
    IF DOMAIN params.m = {}
    THEN post(j, "/job/" \o jobName \o "/build", params, Ptr("*Item"))
    ELSE post(j, "/job/" \o jobName \o "/buildWithParameters", params, Ptr("*Item"))

Build(j, jobName, params) ==
    IF params.isNil
    THEN post(j, "/job/" \o jobName \o "/build", params, Ptr("*Item"))
    ELSE post(j, "/job/" \o jobName \o "/buildWithParameters", params, Ptr("*Item"))

rawGet(j, requestUrl) ==
    LET r == NewRequest("GET", requestUrl, FALSE)
    IN  IF ~r.ok THEN EarlyReturn(j, "raw", "", NilValues, NilBody, r.err)
        ELSE Send(j, "raw", "", NilValues, NilBody, r.req)

GetBuildConsoleOutput(j, buildUrl_) == rawGet(j, buildUrl_ \o "/consoleText")

GetQueue(j) == get(j, "/queue", NilValues, Ptr("*Queue"))

GetQueueItem(j, itemNo) ==
    get(j, "/queue/item/" \o FmtSOfInt(itemNo), NilValues, Ptr("*Item"))

GetArtifact(j, buildUrl_, relativePath) ==
    rawGet(j, buildUrl_ \o "/artifact/" \o relativePath)

\* A call of an exported operation with its arguments.
Invoke(j, inv) ==
    CASE inv.op = "GetJobs"      -> GetJobs(j)
      [] inv.op = "GetJob"       -> GetJob(j, inv.name)
      [] inv.op = "GetJobConfig" -> GetJobConfig(j, inv.name)
      [] inv.op = "GetBuild"     -> GetBuild(j, inv.name, inv.number)
      [] inv.op = "CreateJob"    -> CreateJob(j, inv.name)
      [] inv.op = "AddJobToView" -> AddJobToView(j, inv.view, inv.name)
      [] inv.op = "CreateView"   -> CreateView(j, inv.view)
      [] inv.op = "Build"        -> Build(j, inv.name, inv.params)
      [] inv.op = "GetBuildConsoleOutput" -> GetBuildConsoleOutput(j, inv.buildUrl)
      [] inv.op = "GetQueue"     -> GetQueue(j)
      [] inv.op = "GetQueueItem" -> GetQueueItem(j, inv.number)
      [] inv.op = "GetArtifact"  -> GetArtifact(j, inv.buildUrl, inv.relPath)

----------------------------------------------------------------------------
(* Inputs.                                                                 *)

\* The largest build or queue item number a caller passes.
MaxItemNo == 10

\* The number of goroutines sharing the client in SpecConc.
NumThreads == 2

Threads == 1..NumThreads

Auth0 == [Username |-> "admin", ApiToken |-> "s3cret"]

BaseUrl0 == "http://ci"

\* The client as constructed.
Jenkins0 == NewJenkins(Auth0, BaseUrl0)

\* "x%" does not parse as part of a URL path.
JobNames == {"app", "x%"}

ViewNames == {"main"}

BuildUrls == {"http://ci/job/app/3"}

RelPaths == {"out/a.jar"}

ParamSets ==
    { NilValues,
      Values(<<>>),
      Values("k" :> <<>>),
      Values("name" :> <<"v w">>),
      Values(("b" :> <<"1">>) @@ ("a" :> <<"x", "y">>)) }

Invocations ==
    {[NoInv EXCEPT !.op = op] : op \in {"GetJobs", "GetQueue"}}
    \cup {[NoInv EXCEPT !.op = op, !.name = n] :
             op \in {"GetJob", "GetJobConfig", "CreateJob"}, n \in JobNames}
    \cup {[NoInv EXCEPT !.op = "GetBuild", !.name = n, !.number = k] :
             n \in JobNames, k \in {1, MaxItemNo}}
    \cup {[NoInv EXCEPT !.op = "AddJobToView", !.view = v, !.name = n] :
             v \in ViewNames, n \in JobNames}
    \cup {[NoInv EXCEPT !.op = "CreateView", !.view = v] : v \in ViewNames}
    \cup {[NoInv EXCEPT !.op = "Build", !.name = n, !.params = ps] :
             n \in JobNames, ps \in ParamSets}
    \cup {[NoInv EXCEPT !.op = "GetQueueItem", !.number = k] : k \in 0..MaxItemNo}
    \cup {[NoInv EXCEPT !.op = op, !.buildUrl = u, !.relPath = r] :
             op \in {"GetBuildConsoleOutput", "GetArtifact"}, u \in BuildUrls, r \in RelPaths}

StatusCodes == {200, 201, 404, 500}

Bodies == {"", "{}", "{\"id\":42}", "<project/>", "oops"}

\* Location headers: missing, a queue item, too few segments, no number.
Locations == {"", "http://ci/queue/item/42/", "http://ci/queue/", "http://ci/queue/item/next/"}

\* A response whose body fails to read is one cut off mid-stream; the code
\* never looks at the bytes of a failed read.
Responses ==
    {r \in [status : StatusCodes, body : Bodies, location : Locations, readOk : BOOLEAN] :
        ~r.readOk => r.body = "oops"}

TransportErrors == {"dial tcp: connection refused", "tls: handshake failure"}

\* The inputs of the concurrent specification.
ConcInvocations ==
    { [NoInv EXCEPT !.op = "GetJob", !.name = "app"],
      [NoInv EXCEPT !.op = "Build", !.name = "app"],
      [NoInv EXCEPT !.op = "CreateJob", !.name = "app"],
      [NoInv EXCEPT !.op = "GetQueueItem", !.number = 7] }

ConcResponses ==
    { [status |-> 200, body |-> "{\"id\":42}", location |-> "", readOk |-> TRUE],
      [status |-> 500, body |-> "", location |-> "", readOk |-> TRUE] }

ConcTransportErrors == {"dial tcp: connection refused"}

----------------------------------------------------------------------------
(* The state machine: each goroutine runs one operation at a time; an      *)
(* operation runs to its transport call, waits for the transport, and runs *)
(* to its return.                                                          *)

\* A goroutine between calls.
Idle ==
    [pc |-> "idle", inv |-> NoInv, fn |-> "", path |-> "", params |-> NilValues,
     body |-> NilBody, reqs |-> <<>>, resps |-> <<>>, terr |-> NilErr,
     ret |-> [err |-> NilErr, val |-> Zero, panicked |-> FALSE], decoded |-> FALSE]

\* The responses with the deferred Close of every frame below the top run.
CloseOuter(resps) ==
    [i \in 1..Len(resps) |->
        IF i < Len(resps) THEN [resps[i] EXCEPT !.closed = @ + 1] ELSE resps[i]]

CloseTop(resps, n) ==
    [resps EXCEPT ![Len(resps)].closed = @ + n]

\* The value the exported operation returns: the target the operation itself
\* passed is filled only by its own frame.
Returned(depth, err, val, panicked) ==
    [err |-> err, val |-> IF depth <= 1 THEN val ELSE Zero, panicked |-> panicked]

Init ==
    /\ jenkins = Jenkins0
    /\ th = [t \in {1} |-> Idle]

InitConc ==
    /\ jenkins = Jenkins0
    /\ th = [t \in Threads |-> Idle]

\* A caller invokes an operation: it returns early, or reaches the transport.
Call(t, inv) ==
    /\ th[t].pc = "idle"
    /\ LET p == Invoke(jenkins, inv)
           started == [Idle EXCEPT !.inv = inv, !.fn = p.fn, !.path = p.path,
                                   !.params = p.params, !.body = p.body]
       IN  /\ jenkins' = p.jenkins
           /\ th' = [th EXCEPT ![t] =
                  IF p.kind = "ret"
                  THEN [started EXCEPT !.pc = "done",
                                       !.ret = Returned(1, p.err, Zero, FALSE)]
                  ELSE [started EXCEPT !.pc = "sent", !.reqs = <<p.req>>]]

\* http.DefaultClient.Do fails: every frame returns the error.
TransportFail(t, e) ==
    /\ th[t].pc = "sent"
    /\ th' = [th EXCEPT ![t] =
           [@ EXCEPT !.pc = "done", !.terr = e,
                     !.resps = [i \in 1..Len(@) |-> [@[i] EXCEPT !.closed = @ + 1]],
                     !.ret = Returned(Len(th[t].reqs), e, Zero, FALSE)]]
    /\ UNCHANGED jenkins

\* http.DefaultClient.Do returns a response.
TransportRespond(t, resp) ==
    /\ th[t].pc = "sent"
    /\ th' = [th EXCEPT ![t] =
           [@ EXCEPT !.pc = "received",
                     !.resps = Append(@, [resp |-> resp, closed |-> 0])]]
    /\ UNCHANGED jenkins

\* The top frame runs from the transport's answer to its return, or to the
\* transport call of the GetQueueItem it makes.
Parse(t) ==
    /\ th[t].pc = "received"
    /\ LET me    == th[t]
           depth == Len(me.resps)
           fn    == IF depth = 1 THEN me.fn ELSE "get"
           body  == IF depth = 1 THEN me.body ELSE Ptr("*Item")
           o     == Continue(fn, me.resps[depth].resp, body)
           q     == GetQueueItem(jenkins, o.itemNo)
       IN  IF o.kind = "queue"
           THEN /\ jenkins' = q.jenkins
                /\ th' = [th EXCEPT ![t] =
                       IF q.kind = "ret"
                       THEN [me EXCEPT !.pc = "done",
                                       !.resps = CloseTop(CloseOuter(me.resps), 1),
                                       !.ret = Returned(depth + 1, q.err, Zero, FALSE)]
                       ELSE [me EXCEPT !.pc = "sent", !.reqs = Append(@, q.req)]]
           ELSE /\ UNCHANGED jenkins
                /\ th' = [th EXCEPT ![t] =
                       [me EXCEPT !.pc = "done",
                                  !.resps = CloseTop(CloseOuter(me.resps), o.closes),
                                  !.decoded = @ \/ o.decoded,
                                  !.ret = Returned(depth, o.err, o.val, o.kind = "panic")]]

\* The caller takes the result; the goroutine is free for its next call.
Finish(t) ==
    /\ th[t].pc = "done"
    /\ th' = [th EXCEPT ![t] = Idle]
    /\ UNCHANGED jenkins

Next ==
    \E t \in {1} :
        \/ \E inv \in Invocations : Call(t, inv)
        \/ \E e \in TransportErrors : TransportFail(t, e)
        \/ \E resp \in Responses : TransportRespond(t, resp)
        \/ Parse(t)
        \/ Finish(t)

Spec == Init /\ [][Next]_vars

NextConc ==
    \E t \in Threads :
        \/ \E inv \in ConcInvocations : Call(t, inv)
        \/ \E e \in ConcTransportErrors : TransportFail(t, e)
        \/ \E resp \in ConcResponses : TransportRespond(t, resp)
        \/ Parse(t)
        \/ Finish(t)

SpecConc == InitConc /\ [][NextConc]_vars

----------------------------------------------------------------------------
(* Vocabulary of the properties.                                           *)

Procs == DOMAIN th

Done(t) == th[t].pc = "done"

\* The first response the operation of t obtained.
Got(t) == Len(th[t].resps) >= 1

First(t) == th[t].resps[1].resp

In2xx(status) == status >= 200 /\ status <= 299

\* A Location header ending in /queue/item/N/ for a number N.
QueueItemLocation(loc) ==
    LET parts == Split(loc)
        n     == Len(parts)
    IN  /\ n >= 4
        /\ parts[n] = ""
        /\ Atoi(parts[n - 1]).ok
        /\ parts[n - 2] = "item"
        /\ parts[n - 3] = "queue"

LocationItemNo(loc) == Atoi(Split(loc)[Len(Split(loc)) - 1]).val

\* A Location header that is missing, too short, or without a number at the
\* item position.
BadLocation(loc) ==
    \/ loc = ""
    \/ Len(Split(loc)) < ItemSegment + 1
    \/ ~Atoi(Split(loc)[ItemSegment + 1]).ok

\* A Build whose trigger response has an empty body.
EmptyTrigger(t) ==
    /\ th[t].inv.op = "Build"
    /\ Got(t)
    /\ First(t).body = ""

\* A status-failure error for the given status.
IsStatusFailure(err, status) ==
    HasPrefix(err, StatusErrPrefix) /\ Contains(err, FmtD(status))

AnyStatusFailure(err) == HasPrefix(err, StatusErrPrefix)

\* base + path (+ suffix) (+ ? + encoded query when it is not empty).
UrlFor(base, path, suffix, params) ==
    IF params.isNil \/ Encode(params) = ""
    THEN base \o path \o suffix
    ELSE base \o path \o suffix \o "?" \o Encode(params)

\* What an operation returns when it runs alone against the client as
\* constructed, given the answers of the transport to its own requests.
RECURSIVE AloneFrom(_, _, _, _, _)
AloneFrom(fn, body, k, resps, terr) ==
    IF k > Len(resps) THEN Returned(k, terr, Zero, FALSE)
    ELSE LET o == Continue(fn, resps[k].resp, body)
             q == GetQueueItem(Jenkins0, o.itemNo)
         IN  IF o.kind = "queue"
             THEN IF q.kind = "ret" THEN Returned(k + 1, q.err, Zero, FALSE)
                  ELSE AloneFrom("get", Ptr("*Item"), k + 1, resps, terr)
             ELSE Returned(k, o.err, o.val, o.kind = "panic")

RunAlone(inv, resps, terr) ==
    LET p == Invoke(Jenkins0, inv)
    IN  IF p.kind = "ret" THEN Returned(1, p.err, Zero, FALSE)
        ELSE AloneFrom(p.fn, p.body, 1, resps, terr)

----------------------------------------------------------------------------
(* The claims.                                                             *)

\* C1: a Build whose trigger response has an empty body and a Location header
\* ending in /queue/item/N/ issues a second request, a GET for queue item N,
\* and returns the item decoded from the second response with a nil error
\* when that response is a well-formed queue item.
C1_RedirectResolved ==
    \A t \in Procs :
        (Done(t) /\ EmptyTrigger(t) /\ First(t).readOk /\ QueueItemLocation(First(t).location))
        => /\ Len(th[t].reqs) = 2
           /\ th[t].reqs[2].method = "GET"
           /\ th[t].reqs[2].url =
                 UrlFor(BaseUrl0, "/queue/item/" \o FmtD(LocationItemNo(First(t).location)),
                        "/api/json", NilValues)
           /\ (Len(th[t].resps) = 2 /\ th[t].resps[2].resp.readOk
                 /\ JsonUnmarshal(th[t].resps[2].resp.body).err = NilErr)
              => /\ th[t].ret.err = NilErr
                 /\ th[t].ret.val = JsonUnmarshal(th[t].resps[2].resp.body).val

\* C2: when an operation returns, the body of every response it obtained has
\* been closed exactly once.
C2_BodyClosedOnce ==
    \A t \in Procs :
        Done(t) => \A i \in 1..Len(th[t].resps) : th[t].resps[i].closed = 1

\* C3: a Build whose trigger response has an empty body and a Location header
\* that is missing, too short or not numeric at the item position returns a
\* non-nil error: it does not panic, does not return a nil error, and looks
\* up no queue item.
C3_RedirectFailureReported ==
    \A t \in Procs :
        (Done(t) /\ EmptyTrigger(t) /\ BadLocation(First(t).location))
        => /\ th[t].ret.err # NilErr
           /\ ~th[t].ret.panicked
           /\ Len(th[t].reqs) = 1

\* A Build has returned on an empty trigger response whose Location header
\* is present but has too few segments.
C3_Witness ==
    \E t \in Procs :
        /\ Done(t) /\ EmptyTrigger(t)
        /\ First(t).location # ""
        /\ Len(Split(First(t).location)) < ItemSegment + 1
        /\ th[t].ret.err = ErrJsonEOF

\* C4: an XML-path call (GetJobConfig, CreateJob, CreateView) whose response
\* status is outside 200-299 returns a status-failure error naming that
\* status, and tries no decode.
C4_XmlStatusFailure ==
    \A t \in Procs :
        (Done(t) /\ Got(t) /\ th[t].inv.op \in {"GetJobConfig", "CreateJob", "CreateView"}
           /\ ~In2xx(First(t).status))
        => /\ IsStatusFailure(th[t].ret.err, First(t).status)
           /\ ~th[t].decoded

\* C5: a request of get or post goes to base + path + /api/json (+ ? + query),
\* a request of getXml or postXml to base + path (+ ? + query), the query
\* being appended only when its encoding is not empty.
C5_UrlByDecodePath ==
    \A t \in Procs :
        Len(th[t].reqs) >= 1
        => /\ th[t].fn \in {"get", "post"}
              => th[t].reqs[1].url = UrlFor(BaseUrl0, th[t].path, "/api/json", th[t].params)
           /\ th[t].fn \in {"getXml", "postXml"}
              => th[t].reqs[1].url = UrlFor(BaseUrl0, th[t].path, "", th[t].params)

\* C6: Build posts to /job/{name}/build when its parameters are nil and to
\* /job/{name}/buildWithParameters when they are not, an empty map included.
C6_BuildPathByNil ==
    \A t \in Procs :
        (th[t].pc # "idle" /\ th[t].inv.op = "Build")
        => LET resource == "/job/" \o th[t].inv.name \o
                              (IF th[t].inv.params.isNil THEN "/build"
                               ELSE "/buildWithParameters")
           IN  /\ th[t].path = resource
               /\ Len(th[t].reqs) >= 1
                  => /\ th[t].reqs[1].method = "POST"
                     /\ th[t].reqs[1].url =
                           UrlFor(BaseUrl0, resource, "/api/json", th[t].inv.params)

\* A Build with an empty, non-nil parameter map has sent its trigger request.
C6_Witness ==
    \E t \in Procs :
        /\ th[t].inv.op = "Build"
        /\ ~th[t].inv.params.isNil
        /\ DOMAIN th[t].inv.params.m = {}
        /\ Len(th[t].reqs) = 1
        /\ th[t].reqs[1].url = BaseUrl0 \o "/job/app/buildWithParameters/api/json"

\* C7: GetQueueItem(N) issues a GET for the resource path /queue/item/N, N in
\* decimal digits.
C7_QueueItemPath ==
    \A t \in Procs :
        (th[t].pc # "idle" /\ th[t].inv.op = "GetQueueItem")
        => /\ th[t].path = "/queue/item/" \o FmtD(th[t].inv.number)
           /\ Len(th[t].reqs) = 1
           /\ th[t].reqs[1].method = "GET"
           /\ th[t].reqs[1].url =
                 UrlFor(BaseUrl0, "/queue/item/" \o FmtD(th[t].inv.number), "/api/json", NilValues)

\* C8: under every interleaving, the client keeps its construction-time base
\* address and credentials, every request carries them, and every operation
\* sends the request and returns the result it would when run alone on the
\* transport answers it received.
C8_ConcurrentUseSafe ==
    /\ jenkins = Jenkins0
    /\ \A t \in Procs :
          /\ \A i \in 1..Len(th[t].reqs) :
                /\ th[t].reqs[i].user = Auth0.Username
                /\ th[t].reqs[i].token = Auth0.ApiToken
          /\ Len(th[t].reqs) >= 1 => th[t].reqs[1] = Invoke(Jenkins0, th[t].inv).req
          /\ Done(t) => th[t].ret = RunAlone(th[t].inv, th[t].resps, th[t].terr)

\* One goroutine has returned a decoded result while another, running a
\* different operation, holds a response it has not yet parsed.
C8_Witness ==
    \E t, u \in Procs :
        /\ t # u
        /\ Done(t) /\ Got(t) /\ th[t].ret.err = NilErr /\ th[t].ret.val.id = 42
        /\ th[u].pc = "received"
        /\ th[u].inv.op # th[t].inv.op

\* C9: an operation that has handed a request to the transport makes
\* exactly one transport call, a redirect-resolved Build exactly two; a
\* failed transport call ends the operation with that error, with no further
\* request and no decode.
C9_BoundedRoundTrips ==
    \A t \in Procs :
        (Done(t) /\ Len(th[t].reqs) >= 1)
        => LET redirect == /\ EmptyTrigger(t) /\ First(t).readOk
                           /\ QueueItemLocation(First(t).location)
           IN  /\ Len(th[t].reqs) = IF redirect THEN 2 ELSE 1
               /\ th[t].terr # NilErr
                  => /\ th[t].ret.err = th[t].terr
                     /\ ~th[t].decoded
                     /\ Len(th[t].resps) = Len(th[t].reqs) - 1

\* C10: CreateJob and CreateView return nil, not a status failure, on every
\* response whose status is in 200-299.
C10_SuccessStatusAccepted ==
    \A t \in Procs :
        (Done(t) /\ Got(t) /\ th[t].inv.op \in {"CreateJob", "CreateView"}
           /\ In2xx(First(t).status))
        => /\ ~AnyStatusFailure(th[t].ret.err)
           /\ th[t].ret.err = NilErr

====
